---- MODULE Spec2Model ----
(***************************************************************************)
(* The live-content pipeline of the blog server: the per-field content     *)
(* store (AppState), the loader/refresher (load_content, reload_content),  *)
(* the debounced file watcher with its bridge channel                      *)
(* (start_content_watcher), the reload broadcaster and the websocket       *)
(* sessions (handle_socket), and the request handlers (homepage,           *)
(* render_post).                                                           *)
(*                                                                         *)
(* The repository holds two drafts of the pipeline: src/main.rs defines    *)
(* everything itself, and content_loader.rs / hot_reload.rs hold the       *)
(* split-out draft.  They differ in the watcher's event filter and in how  *)
(* the home fragment is loaded; the variable draft says which one runs.    *)
(***************************************************************************)
EXTENDS Integers, Sequences, FiniteSets, TLC

\* ------------------------------------------------------------- bounds ----
MaxBatches == 2       \* debounced batches the debouncer hands to the callback
NumHandlers == 1      \* concurrent request handler tasks
NumSessions == 2      \* websocket session slots
MaxDirEntries == 1    \* entries of content/posts seen by one directory scan

\* ---------------------------------------------------- program constants ----
BridgeCapacity == 1      \* tokio::sync::mpsc::channel(1)
BroadcastCapacity == 1   \* broadcast::channel(1)

Drafts == {"main_rs", "modules"}
Fields == {"banner", "layout", "home", "not_found", "posts"}
Handlers == 1..NumHandlers
Sessions == 1..NumSessions
Watcher == 0             \* the refresher's identity in the lock queues

VARIABLES
    draft,      \* which draft of the pipeline is the running program
    store,      \* AppState: field -> load cycle whose value the field holds
    readers,    \* per field RwLock: the handlers holding a read guard
    queue,      \* per field RwLock: FIFO of tasks waiting for the lock
    cbpc,       \* debouncer thread: "idle", "filter", "blocked"
    cbBatch,    \* the callback's argument res (a batch, or WatchErrors)
    nBatches,   \* callback invocations so far
    bridge,     \* messages in the mpsc bridge channel
    accepted,   \* batches for which the callback called blocking_send
    wpc,        \* watcher task position
    widx,       \* index into the load order / install order
    dirLeft,    \* entries the directory stream still has to yield
    cycle,      \* number of the batch the watcher loop took last
    bcastLog,   \* the signals broadcast so far, each the batch it is for;
                \* the channel's tail position is Len(bcastLog)
    spc,        \* session position: "none", "recv", "send", "closed"
    rxNext,     \* session receiver's next position in the broadcast channel
    connected,  \* whether the session's client is still connected
    frames,     \* frames the session has sent to its client
    subAt,      \* broadcast tail at the session's subscribe call
    gotIdx,     \* position of the signal the session's recv returned (0: none)
    heard,      \* batches whose signal some session's recv has returned
    okCycles,   \* batches whose load_content returned Ok
    hkind,      \* handler: "idle", "homepage", "post_read", "post_miss",
                \*          "post_hit", "done", "panicked"
    hidx,       \* handler: index of the next lock in its acquisition order
    seen,       \* handler: the <<field, cycle>> pairs it has read
    floor,      \* handler: newest successfully loaded batch whose signal a
                \* session had received when the request started
    is_development, \* AppState.is_development (RUST_ENV = "development")
    mpc,        \* main: "load", "next_entry", "read_post" (the initial
                \* load_content), "aborted", "serving"
    call,       \* a function under study and its argument
    ret         \* what that call returned

vars == <<draft, store, readers, queue, cbpc, cbBatch, nBatches, bridge,
          accepted, wpc, widx, dirLeft, cycle, bcastLog, spc, rxNext,
          connected, frames, subAt, gotIdx, heard, okCycles, hkind, hidx,
          seen, floor, is_development, mpc, call, ret>>

lockVars == <<readers, queue>>
cbVars == <<cbpc, cbBatch, nBatches, accepted>>
watcherVars == <<wpc, widx, dirLeft, cycle, okCycles>>
sessionVars == <<spc, rxNext, connected, frames, subAt, gotIdx, heard>>
handlerVars == <<hkind, hidx, seen, floor>>
mainVars == <<is_development, mpc>>
callVars == <<call, ret>>

NoCall == [fn |-> "none"]
NotReturned == [status |-> "none"]

\* ------------------------------------------------- filesystem events ----
\* notify::EventKind, with the ModifyKind that matters spelled out.
EventKinds == {"access", "create", "modify_data", "modify_metadata", "remove"}

\* File names as character sequences, so that starts_with / ends_with are
\* computed and not assumed.
PlainName == <<"a">>
LockName == <<".", "#", "a">>
BackupName == <<"a", "~">>
HashName == <<"#", "a">>
FileNames == {PlainName, LockName, BackupName, HashName}

\* event.event.paths: one path, or two for a rename-like event.
PathLists == {<<n>> : n \in FileNames} \cup {<<PlainName, BackupName>>,
                                               <<LockName, PlainName>>}
Events == [kind : EventKinds, paths : PathLists]
AllBatches == {<<e>> : e \in Events} \cup
              {<<e1, e2>> : e1 \in Events, e2 \in Events}
\* The callback's argument: Result<Vec<DebouncedEvent>, Vec<Error>>
OkRes(batch) == [ok |-> TRUE, events |-> batch]
WatchErrors == [ok |-> FALSE, events |-> <<>>]
NoBatch == OkRes(<<>>)          \* the callback is not running

is_modify(k) == k \in {"modify_data", "modify_metadata"}
is_create(k) == k = "create"
is_remove(k) == k = "remove"

starts_with(s, p) == Len(s) >= Len(p) /\ SubSeq(s, 1, Len(p)) = p
ends_with(s, c) == Len(s) >= 1 /\ s[Len(s)] = c

is_temp_name(s) == starts_with(s, <<".", "#">>) \/ ends_with(s, "~")
is_temp_file(e) == \E i \in 1..Len(e.paths) : is_temp_name(e.paths[i])
is_relevant_kind(e) == is_modify(e.kind) \/ is_create(e.kind) \/ is_remove(e.kind)

\* hot_reload.rs: the filter closure
relevant_event(e) == is_relevant_kind(e) /\ ~is_temp_file(e)
relevant_events(batch) == {i \in 1..Len(batch) : relevant_event(batch[i])}

\* main.rs: events.iter().any(kind is modify / create / remove)
relevant_change(batch) == \E i \in 1..Len(batch) : is_relevant_kind(batch[i])

\* Whether the callback of the running draft sends on the bridge
Triggers(d, batch) ==
    IF d = "modules" THEN relevant_events(batch) # {} ELSE relevant_change(batch)

\* A few batches for the specifications that are not about the filter.
SomeBatches == {<<[kind |-> "modify_data", paths |-> <<PlainName>>]>>,
                <<[kind |-> "access", paths |-> <<PlainName>>]>>}

\* ------------------------------------------------------ RwLock (tokio) ----
\* tokio's RwLock is a FIFO semaphore: a task that cannot take the lock at
\* once queues, and nobody overtakes the queue.  The refresher's write guard
\* is a temporary of one assignment statement, so it is never held across a
\* step; only read guards are.
InQueue(f, p) == \E i \in 1..Len(queue[f]) : queue[f][i] = p
Front(f, p) == queue[f] = <<>> \/ Head(queue[f]) = p
Dequeue(f, p) == IF queue[f] # <<>> /\ Head(queue[f]) = p
                 THEN Tail(queue[f]) ELSE queue[f]
\* Mutant of CanRead: a read-preferring lock, where a reader passes a waiting
\* writer.
CanRead_read_preferring(f, h) == TRUE

CanRead(f, h) == Front(f, h)
CanWrite(f) == readers[f] = {} /\ Front(f, Watcher)

\* ------------------------------------------------- debouncer callback ----
WatcherAlive == wpc # "panicked"
\* The debouncer exists only inside the task start_content_watcher spawns.
WatcherStarted == wpc # "off"

\* The debouncer thread calls the closure with the next debounced result.
DebouncerCallback(res) ==
    /\ cbpc = "idle"
    /\ WatcherStarted
    /\ WatcherAlive
    /\ nBatches < MaxBatches
    /\ cbpc' = "filter"
    /\ cbBatch' = res
    /\ nBatches' = nBatches + 1
    /\ UNCHANGED <<draft, mainVars, callVars, store, lockVars, bridge, accepted, watcherVars,
                   bcastLog, sessionVars, handlerVars>>

\* watcher_tx.blocking_send(()): Err when the receiver is gone, the message
\* queued when the channel has room, else the thread blocks.
blocking_send ==
    IF ~WatcherAlive
    THEN /\ cbpc' = "idle"
         /\ bridge' = bridge
    ELSE IF bridge < BridgeCapacity
    THEN /\ cbpc' = "idle"
         /\ bridge' = bridge + 1
    ELSE /\ cbpc' = "blocked"
         /\ bridge' = bridge

\* res = Err(errors): logged, nothing sent.
CallbackErrors ==
    /\ cbpc = "filter"
    /\ ~cbBatch.ok
    /\ cbpc' = "idle"
    /\ cbBatch' = NoBatch
    /\ UNCHANGED <<draft, mainVars, callVars, store, lockVars, nBatches, bridge, accepted,
                   watcherVars, bcastLog, sessionVars, handlerVars>>

\* res = Ok(events), no relevant event: the callback returns.
CallbackReject ==
    /\ cbpc = "filter"
    /\ cbBatch.ok
    /\ ~Triggers(draft, cbBatch.events)
    /\ cbpc' = "idle"
    /\ cbBatch' = NoBatch
    /\ UNCHANGED <<draft, mainVars, callVars, store, lockVars, nBatches, bridge, accepted,
                   watcherVars, bcastLog, sessionVars, handlerVars>>

\* res = Ok(events) with a relevant event: blocking_send on the bridge.
CallbackAccept ==
    /\ cbpc = "filter"
    /\ cbBatch.ok
    /\ Triggers(draft, cbBatch.events)
    /\ accepted' = accepted + 1
    /\ cbBatch' = NoBatch
    /\ blocking_send
    /\ UNCHANGED <<draft, mainVars, callVars, store, lockVars, nBatches, watcherVars, bcastLog,
                   sessionVars, handlerVars>>

\* The blocked blocking_send completes: room in the channel, or the receiver
\* was dropped.
CallbackUnblock ==
    /\ cbpc = "blocked"
    /\ (bridge < BridgeCapacity \/ ~WatcherAlive)
    /\ blocking_send
    /\ UNCHANGED <<draft, mainVars, callVars, store, lockVars, cbBatch, nBatches, accepted,
                   watcherVars, bcastLog, sessionVars, handlerVars>>

\* ------------------------------------------------------- watcher task ----
\* Mutant of loop_order: the signal is broadcast before the reload.
loop_order_send_first(stage) ==
    CASE stage = "recv" -> "send"
      [] stage = "send" -> "reload"
      [] stage = "reload" -> "recv"

\* The body of the while loop of start_content_watcher: after recv the
\* reload, after the reload the send, after the send the next recv.
loop_order(stage) ==
    CASE stage = "recv" -> "reload"
      [] stage = "reload" -> "send"
      [] stage = "send" -> "recv"

\* watcher_rx.recv().await returned Some(())
WatcherRecv ==
    /\ wpc = "recv"
    /\ bridge > 0
    /\ bridge' = bridge - 1
    /\ cycle' = cycle + 1
    /\ wpc' = loop_order("recv")
    /\ UNCHANGED <<draft, mainVars, callVars, store, lockVars, cbVars, widx, dirLeft, okCycles,
                   bcastLog, sessionVars, handlerVars>>

\* reload_content is entered: load_content starts with its first read.
reload_content_start ==
    /\ wpc = "reload"
    /\ wpc' = "load"
    /\ widx' = 1
    /\ UNCHANGED <<draft, mainVars, callVars, store, lockVars, cbVars, bridge, dirLeft, cycle,
                   okCycles, bcastLog, sessionVars, handlerVars>>

\* The reads of load_content, in the order of the running draft.
LoadOrder(d) ==
    IF d = "main_rs"
    THEN <<"banner", "layout", "home_html", "not_found", "posts_dir">>
    ELSE <<"banner", "layout", "not_found", "home_md", "posts_dir">>

\* Mutant of load_fragment: the banner is assigned to the store as soon as it
\* is read, before the rest of the load is known to succeed.
load_fragment_eager_install ==
    /\ wpc = "load"
    /\ LoadOrder(draft)[widx] # "posts_dir"
    /\ widx' = widx + 1
    /\ store' = IF LoadOrder(draft)[widx] = "banner"
                THEN [store EXCEPT !["banner"] = cycle] ELSE store
    /\ UNCHANGED <<draft, mainVars, callVars, lockVars, cbVars, bridge, wpc, dirLeft,
                   cycle, okCycles, bcastLog, sessionVars, handlerVars>>

\* A fragment file was read (home.md: read, and its front matter parsed Ok).
load_fragment ==
    /\ wpc = "load"
    /\ LoadOrder(draft)[widx] # "posts_dir"
    /\ widx' = widx + 1
    /\ UNCHANGED <<draft, mainVars, callVars, store, lockVars, cbVars, bridge, wpc, dirLeft,
                   cycle, okCycles, bcastLog, sessionVars, handlerVars>>

\* content_loader.rs: matter.parse(home.md) is Err and result.unwrap()
\* panics; the watcher task ends and drops the debouncer and watcher_rx.
load_home_md_panic ==
    /\ wpc = "load"
    /\ LoadOrder(draft)[widx] = "home_md"
    /\ wpc' = "panicked"
    /\ bridge' = 0
    /\ UNCHANGED <<draft, mainVars, callVars, store, lockVars, cbVars, widx, dirLeft, cycle,
                   okCycles, bcastLog, sessionVars, handlerVars>>

\* fs::read_dir succeeded: the stream will yield some number of entries.
load_read_dir ==
    /\ wpc = "load"
    /\ LoadOrder(draft)[widx] = "posts_dir"
    /\ \E n \in 0..MaxDirEntries : dirLeft' = n
    /\ wpc' = "next_entry"
    /\ UNCHANGED <<draft, mainVars, callVars, store, lockVars, cbVars, bridge, widx, cycle,
                   okCycles, bcastLog, sessionVars, handlerVars>>

\* entries.next_entry() yielded an entry: a .md file is read next, any other
\* entry is skipped.
load_next_entry ==
    /\ wpc = "next_entry"
    /\ dirLeft > 0
    /\ dirLeft' = dirLeft - 1
    /\ \E isMd \in BOOLEAN : wpc' = IF isMd THEN "read_post" ELSE "next_entry"
    /\ UNCHANGED <<draft, mainVars, callVars, store, lockVars, cbVars, bridge, widx, cycle,
                   okCycles, bcastLog, sessionVars, handlerVars>>

\* A post file was read; whatever its front matter parses to (Ok with data,
\* Ok without, Err), a Post is pushed and the loop goes on.
load_post ==
    /\ wpc = "read_post"
    /\ wpc' = "next_entry"
    /\ UNCHANGED <<draft, mainVars, callVars, store, lockVars, cbVars, bridge, widx, dirLeft,
                   cycle, okCycles, bcastLog, sessionVars, handlerVars>>

\* next_entry() yielded None: load_content returns Ok and reload_content
\* goes on to install the five values.
load_content_Ok ==
    /\ wpc = "next_entry"
    /\ dirLeft = 0
    /\ okCycles' = okCycles \cup {cycle}
    /\ wpc' = "install"
    /\ widx' = 1
    /\ UNCHANGED <<draft, mainVars, callVars, store, lockVars, cbVars, bridge, dirLeft, cycle,
                   bcastLog, sessionVars, handlerVars>>

\* Mutant of reload_content_Err: a failed refresh skips the broadcast.
reload_content_Err_no_send ==
    /\ wpc \in {"load", "next_entry", "read_post"}
    /\ wpc' = "recv"
    /\ UNCHANGED <<draft, mainVars, callVars, store, lockVars, cbVars, bridge, widx, dirLeft,
                   cycle, okCycles, bcastLog, sessionVars, handlerVars>>

\* Any `?` of load_content took the error path (a fragment, the directory,
\* an entry or a post file unreadable): reload_content logs and returns.
reload_content_Err ==
    /\ wpc \in {"load", "next_entry", "read_post"}
    /\ wpc' = loop_order("reload")
    /\ UNCHANGED <<draft, mainVars, callVars, store, lockVars, cbVars, bridge, widx, dirLeft,
                   cycle, okCycles, bcastLog, sessionVars, handlerVars>>

InstallOrder == <<"banner", "layout", "home", "not_found", "posts">>

\* *app_state.<field>.write().await = value: the write lock is taken, the
\* value assigned and the guard dropped, or the task queues for the lock.
reload_content_install ==
    /\ wpc = "install"
    /\ LET f == InstallOrder[widx] IN
       IF CanWrite(f)
       THEN /\ store' = [store EXCEPT ![f] = cycle]
            /\ queue' = [queue EXCEPT ![f] = Dequeue(f, Watcher)]
            /\ IF widx = Len(InstallOrder)
               THEN wpc' = loop_order("reload") /\ widx' = widx
               ELSE wpc' = wpc /\ widx' = widx + 1
       ELSE /\ ~InQueue(f, Watcher)
            /\ queue' = [queue EXCEPT ![f] = Append(@, Watcher)]
            /\ UNCHANGED <<store, wpc, widx>>
    /\ UNCHANGED <<draft, mainVars, callVars, readers, cbVars, bridge, dirLeft, cycle, okCycles,
                   bcastLog, sessionVars, handlerVars>>

\* tx.send(()): main keeps _rx alive, so the send never fails.
WatcherSend ==
    /\ wpc = "send"
    /\ bcastLog' = Append(bcastLog, cycle)
    /\ wpc' = loop_order("send")
    /\ UNCHANGED <<draft, mainVars, callVars, store, lockVars, cbVars, bridge, widx, dirLeft,
                   cycle, okCycles, sessionVars, handlerVars>>

\* ------------------------------------------------- websocket sessions ----
Tail_pos == Len(bcastLog)

\* Mutant of subscribe_pos: a new receiver is handed the last signal sent
\* before it subscribed.
subscribe_pos_replay == IF Tail_pos > 0 THEN Tail_pos - 1 ELSE 0

\* ws_handler upgrades and handle_socket runs tx.subscribe(): the receiver
\* starts at the channel's tail.
subscribe_pos == Tail_pos

handle_socket_subscribe(s) ==
    /\ mpc = "serving"
    /\ spc[s] = "none"
    /\ spc' = [spc EXCEPT ![s] = "recv"]
    /\ rxNext' = [rxNext EXCEPT ![s] = subscribe_pos]
    /\ subAt' = [subAt EXCEPT ![s] = Tail_pos]
    /\ connected' = [connected EXCEPT ![s] = TRUE]
    /\ frames' = [frames EXCEPT ![s] = <<>>]
    /\ gotIdx' = [gotIdx EXCEPT ![s] = 0]
    /\ UNCHANGED <<draft, mainVars, callVars, store, lockVars, cbVars, bridge, watcherVars,
                   bcastLog, heard, handlerVars>>

\* rx.recv().await returned Ok(()): the receiver was at most
\* BroadcastCapacity behind the tail.
handle_socket_recv_ok(s) ==
    /\ spc[s] = "recv"
    /\ Tail_pos > rxNext[s]
    /\ Tail_pos - rxNext[s] <= BroadcastCapacity
    /\ rxNext' = [rxNext EXCEPT ![s] = @ + 1]
    /\ gotIdx' = [gotIdx EXCEPT ![s] = rxNext[s] + 1]
    /\ heard' = heard \cup {bcastLog[rxNext[s] + 1]}
    /\ spc' = [spc EXCEPT ![s] = "send"]
    /\ UNCHANGED <<draft, mainVars, callVars, store, lockVars, cbVars, bridge, watcherVars,
                   bcastLog, connected, frames, subAt, handlerVars>>

\* rx.recv().await returned Err(Lagged(n)): the slot the receiver was to read
\* has been overwritten; is_ok() is false and handle_socket returns.
handle_socket_recv_lagged(s) ==
    /\ spc[s] = "recv"
    /\ Tail_pos - rxNext[s] > BroadcastCapacity
    /\ rxNext' = [rxNext EXCEPT ![s] = Tail_pos - BroadcastCapacity]
    /\ spc' = [spc EXCEPT ![s] = "closed"]
    /\ UNCHANGED <<draft, mainVars, callVars, store, lockVars, cbVars, bridge, watcherVars,
                   bcastLog, connected, frames, subAt, gotIdx, heard,
                   handlerVars>>

\* Mutant of handle_socket_send: after sending, the session waits for the
\* next signal instead of returning.
handle_socket_send_loop(s) ==
    /\ spc[s] = "send"
    /\ frames' = [frames EXCEPT ![s] =
                     IF connected[s] THEN Append(@, "reload") ELSE @]
    /\ spc' = [spc EXCEPT ![s] = "recv"]
    /\ UNCHANGED <<draft, mainVars, callVars, store, lockVars, cbVars, bridge, watcherVars,
                   bcastLog, rxNext, connected, subAt, gotIdx, heard,
                   handlerVars>>

\* socket.send(Message::Text("reload")): delivered when the client is there,
\* an error (logged at debug level) when it is gone; then the function
\* returns and the socket closes.
handle_socket_send(s) ==
    /\ spc[s] = "send"
    /\ frames' = [frames EXCEPT ![s] =
                     IF connected[s] THEN Append(@, "reload") ELSE @]
    /\ spc' = [spc EXCEPT ![s] = "closed"]
    /\ UNCHANGED <<draft, mainVars, callVars, store, lockVars, cbVars, bridge, watcherVars,
                   bcastLog, rxNext, connected, subAt, gotIdx, heard,
                   handlerVars>>

\* The browser goes away while the session is open.
ClientDisconnect(s) ==
    /\ spc[s] \in {"recv", "send"}
    /\ connected[s]
    /\ connected' = [connected EXCEPT ![s] = FALSE]
    /\ UNCHANGED <<draft, mainVars, callVars, store, lockVars, cbVars, bridge, watcherVars,
                   bcastLog, spc, rxNext, frames, subAt, gotIdx, heard,
                   handlerVars>>

\* ---------------------------------------------------- request handlers ----
\* The order in which each handler takes its read guards; all are held until
\* the handler returns.
homepage_order == <<"banner", "layout", "home", "posts">>
render_post_miss_order == <<"not_found", "layout", "banner", "posts">>
render_post_hit_order == <<"layout", "banner", "posts">>

LockOrder(kind) ==
    CASE kind = "homepage" -> homepage_order
      [] kind = "post_miss" -> render_post_miss_order
      [] kind = "post_hit" -> render_post_hit_order
      [] OTHER -> <<>>

MaxOf(S) == IF S = {} THEN 0 ELSE CHOOSE x \in S : \A y \in S : y <= x

\* A request arrives: GET / or GET /posts/{slug}.
HandlerStart(h, kind) ==
    /\ mpc = "serving"
    /\ hkind[h] = "idle"
    /\ hkind' = [hkind EXCEPT ![h] = kind]
    /\ hidx' = [hidx EXCEPT ![h] = 1]
    /\ seen' = [seen EXCEPT ![h] = {}]
    /\ floor' = [floor EXCEPT ![h] = MaxOf(heard \cap okCycles)]
    /\ UNCHANGED <<draft, mainVars, callVars, store, lockVars, cbVars, bridge, watcherVars,
                   bcastLog, sessionVars>>

\* render_post: fs::read_to_string of the post file fails (the not-found
\* path) or succeeds and the front matter parses Ok.
render_post_read(h) ==
    /\ hkind[h] = "post_read"
    /\ \E hit \in BOOLEAN :
          hkind' = [hkind EXCEPT ![h] = IF hit THEN "post_hit" ELSE "post_miss"]
    /\ UNCHANGED <<draft, mainVars, callVars, store, lockVars, cbVars, bridge, watcherVars,
                   bcastLog, sessionVars, hidx, seen, floor>>

\* render_post: the file was read but matter.parse is Err, and
\* result.unwrap() panics before any lock is taken.
render_post_panic(h) ==
    /\ hkind[h] = "post_read"
    /\ hkind' = [hkind EXCEPT ![h] = "panicked"]
    /\ UNCHANGED <<draft, mainVars, callVars, store, lockVars, cbVars, bridge, watcherVars,
                   bcastLog, sessionVars, hidx, seen, floor>>

\* state.<field>.read().await: the guard is taken and the value seen, or the
\* handler queues behind a waiting writer.
read_lock(h) ==
    /\ hidx[h] <= Len(LockOrder(hkind[h]))
    /\ LET f == LockOrder(hkind[h])[hidx[h]] IN
       IF CanRead(f, h)
       THEN /\ readers' = [readers EXCEPT ![f] = @ \cup {h}]
            /\ queue' = [queue EXCEPT ![f] = Dequeue(f, h)]
            /\ seen' = [seen EXCEPT ![h] = @ \cup {<<f, store[f]>>}]
            /\ hidx' = [hidx EXCEPT ![h] = @ + 1]
       ELSE /\ ~InQueue(f, h)
            /\ queue' = [queue EXCEPT ![f] = Append(@, h)]
            /\ UNCHANGED <<readers, seen, hidx>>
    /\ UNCHANGED <<draft, mainVars, callVars, store, cbVars, bridge, watcherVars, bcastLog,
                   sessionVars, hkind, floor>>

\* render_with_layout composes the page from the values seen, the handler
\* returns and all its guards are dropped.
HandlerFinish(h) ==
    /\ hkind[h] \in {"homepage", "post_miss", "post_hit"}
    /\ hidx[h] > Len(LockOrder(hkind[h]))
    /\ readers' = [f \in Fields |-> readers[f] \ {h}]
    /\ hkind' = [hkind EXCEPT ![h] = "done"]
    /\ UNCHANGED <<draft, mainVars, callVars, store, queue, cbVars, bridge, watcherVars, bcastLog,
                   sessionVars, hidx, seen, floor>>

\* The handler task is gone; the slot serves the next request.
HandlerReset(h) ==
    /\ hkind[h] \in {"done", "panicked"}
    /\ hkind' = [hkind EXCEPT ![h] = "idle"]
    /\ hidx' = [hidx EXCEPT ![h] = 1]
    /\ seen' = [seen EXCEPT ![h] = {}]
    /\ floor' = [floor EXCEPT ![h] = 0]
    /\ UNCHANGED <<draft, mainVars, callVars, store, lockVars, cbVars, bridge, watcherVars,
                   bcastLog, sessionVars>>

\* ---------------------------------------------------------------- main ----
\* Before main has built AppState there is no store.
NoStore == [f \in {} |-> 0]

\* main: the initial load_content reads a fragment file.
main_load_fragment ==
    /\ mpc = "load"
    /\ LoadOrder(draft)[widx] # "posts_dir"
    /\ widx' = widx + 1
    /\ UNCHANGED <<draft, mainVars, callVars, store, lockVars, cbVars, bridge,
                   wpc, dirLeft, cycle, okCycles, bcastLog, sessionVars,
                   handlerVars>>

\* main: the initial load_content opens the posts directory.
main_load_read_dir ==
    /\ mpc = "load"
    /\ LoadOrder(draft)[widx] = "posts_dir"
    /\ \E n \in 0..MaxDirEntries : dirLeft' = n
    /\ mpc' = "next_entry"
    /\ UNCHANGED <<draft, is_development, callVars, store, lockVars, cbVars,
                   bridge, wpc, widx, cycle, okCycles, bcastLog, sessionVars,
                   handlerVars>>

\* main: the directory stream yields an entry; a .md file is read next.
main_load_next_entry ==
    /\ mpc = "next_entry"
    /\ dirLeft > 0
    /\ dirLeft' = dirLeft - 1
    /\ \E isMd \in BOOLEAN : mpc' = IF isMd THEN "read_post" ELSE "next_entry"
    /\ UNCHANGED <<draft, is_development, callVars, store, lockVars, cbVars,
                   bridge, wpc, widx, cycle, okCycles, bcastLog, sessionVars,
                   handlerVars>>

\* main: a post file was read and a Post pushed.
main_load_post ==
    /\ mpc = "read_post"
    /\ mpc' = "next_entry"
    /\ UNCHANGED <<draft, is_development, callVars, store, lockVars, cbVars,
                   bridge, wpc, widx, dirLeft, cycle, okCycles, bcastLog,
                   sessionVars, handlerVars>>

\* main: load_content returned Err and .expect("Failed to load initial
\* content files") panics: the process ends before AppState is built.
main_load_abort ==
    /\ mpc \in {"load", "next_entry", "read_post"}
    /\ mpc' = "aborted"
    /\ UNCHANGED <<draft, is_development, callVars, store, lockVars, cbVars,
                   bridge, wpc, widx, dirLeft, cycle, okCycles, bcastLog,
                   sessionVars, handlerVars>>

\* Mutant of watcher_start: the watcher is started whatever the mode.
watcher_start_always(dev) == "recv"

\* if is_development { start_content_watcher(...) }: where the watcher task
\* is once main goes on to serve.
watcher_start(dev) == IF dev THEN "recv" ELSE "off"

\* main: load_content returned Ok; AppState is built from its five values,
\* the watcher is started in development mode, and the server listens.
main_serve ==
    /\ mpc = "next_entry"
    /\ dirLeft = 0
    /\ store' = [f \in Fields |-> 0]
    /\ wpc' = watcher_start(is_development)
    /\ widx' = 1
    /\ mpc' = "serving"
    /\ UNCHANGED <<draft, is_development, callVars, lockVars, cbVars, bridge,
                   dirLeft, cycle, okCycles, bcastLog, sessionVars,
                   handlerVars>>

MainNext ==
    \/ main_load_fragment
    \/ main_load_read_dir
    \/ main_load_next_entry
    \/ main_load_post
    \/ main_load_abort
    \/ main_serve

\* ------------------------------------------------------ specifications ----
\* Nothing has happened yet: no lock held, no batch, no signal, no session, no
\* request.
IdleHandlers(H) ==
    /\ hkind = [h \in H |-> "idle"]
    /\ hidx = [h \in H |-> 1]
    /\ seen = [h \in H |-> {}]
    /\ floor = [h \in H |-> 0]

QuietTasks ==
    /\ readers = [f \in Fields |-> {}]
    /\ queue = [f \in Fields |-> <<>>]
    /\ cbpc = "idle"
    /\ cbBatch = NoBatch
    /\ nBatches = 0
    /\ bridge = 0
    /\ accepted = 0
    /\ widx = 1
    /\ dirLeft = 0
    /\ cycle = 0
    /\ bcastLog = <<>>
    /\ spc = [s \in Sessions |-> "none"]
    /\ rxNext = [s \in Sessions |-> 0]
    /\ connected = [s \in Sessions |-> FALSE]
    /\ frames = [s \in Sessions |-> <<>>]
    /\ subAt = [s \in Sessions |-> 0]
    /\ gotIdx = [s \in Sessions |-> 0]
    /\ heard = {}
    /\ okCycles = {}

Quiet ==
    /\ QuietTasks
    /\ IdleHandlers(Handlers)

\* main: the initial load succeeded (cycle 0), the store holds its values,
\* the watcher task waits on the bridge (development mode).
Init ==
    /\ draft \in Drafts
    /\ is_development = TRUE
    /\ mpc = "serving"
    /\ call = NoCall
    /\ ret = NotReturned
    /\ store = [f \in Fields |-> 0]
    /\ wpc = "recv"
    /\ Quiet

CallbackNext ==
    \/ CallbackErrors
    \/ CallbackReject
    \/ CallbackAccept
    \/ CallbackUnblock

WatcherNext ==
    \/ WatcherRecv
    \/ reload_content_start
    \/ load_fragment
    \/ load_home_md_panic
    \/ load_read_dir
    \/ load_next_entry
    \/ load_post
    \/ load_content_Ok
    \/ reload_content_Err
    \/ reload_content_install
    \/ WatcherSend

SessionNext ==
    \E s \in Sessions :
        \/ handle_socket_subscribe(s)
        \/ handle_socket_recv_ok(s)
        \/ handle_socket_recv_lagged(s)
        \/ handle_socket_send(s)
        \/ ClientDisconnect(s)

HandlerNext ==
    \E h \in Handlers :
        \/ \E kind \in {"homepage", "post_read"} : HandlerStart(h, kind)
        \/ render_post_read(h)
        \/ render_post_panic(h)
        \/ read_lock(h)
        \/ HandlerFinish(h)
        \/ HandlerReset(h)

\* The store side: the watcher, the refresher and the request handlers.
Next ==
    \/ \E b \in SomeBatches : DebouncerCallback(OkRes(b))
    \/ DebouncerCallback(WatchErrors)
    \/ CallbackNext
    \/ WatcherNext
    \/ HandlerNext

Spec == Init /\ [][Next]_vars

\* The reload side: the watcher and the websocket sessions.
NextReload ==
    \/ \E b \in SomeBatches : DebouncerCallback(OkRes(b))
    \/ DebouncerCallback(WatchErrors)
    \/ CallbackNext
    \/ WatcherNext
    \/ SessionNext

SpecReload == Init /\ [][NextReload]_vars

\* The filter: the callback on every batch of the event alphabet.
NextFilter ==
    \/ \E b \in AllBatches : DebouncerCallback(OkRes(b))
    \/ DebouncerCallback(WatchErrors)
    \/ CallbackNext
    \/ WatcherNext

SpecFilter == Init /\ [][NextFilter]_vars

\* End to end, one browser: the watcher, the browser's websocket session and
\* the homepage requests the browser makes.
Browser == CHOOSE s \in Sessions : TRUE
BrowserRequest == CHOOSE h \in Handlers : TRUE

NextPipeline ==
    \/ \E b \in SomeBatches : DebouncerCallback(OkRes(b))
    \/ DebouncerCallback(WatchErrors)
    \/ CallbackNext
    \/ WatcherNext
    \/ handle_socket_subscribe(Browser)
    \/ handle_socket_recv_ok(Browser)
    \/ handle_socket_recv_lagged(Browser)
    \/ handle_socket_send(Browser)
    \/ HandlerStart(BrowserRequest, "homepage")
    \/ read_lock(BrowserRequest)
    \/ HandlerFinish(BrowserRequest)
    \/ HandlerReset(BrowserRequest)

SpecPipeline == Init /\ [][NextPipeline]_vars

\* Startup: main in either mode, from its initial load_content on.
InitMain ==
    /\ draft \in Drafts
    /\ is_development \in BOOLEAN
    /\ mpc = "load"
    /\ call = NoCall
    /\ ret = NotReturned
    /\ store = NoStore
    /\ wpc = "off"
    /\ Quiet

NextMain ==
    \/ MainNext
    \/ Next

SpecMain == InitMain /\ [][NextMain]_vars

\* The locks: several request handlers at once against the refresher.
NumLockHandlers == 2
LockHandlers == 1..NumLockHandlers

\* The watcher task has taken the first accepted batch and its load_content
\* has just returned Ok: reload_content is about to install the five values.
RefreshLoaded ==
    /\ draft = "modules"
    /\ is_development = TRUE
    /\ mpc = "serving"
    /\ call = NoCall
    /\ ret = NotReturned
    /\ store = [f \in Fields |-> 0]
    /\ readers = [f \in Fields |-> {}]
    /\ queue = [f \in Fields |-> <<>>]
    /\ cbpc = "idle"
    /\ cbBatch = NoBatch
    /\ nBatches = 1
    /\ bridge = 0
    /\ accepted = 1
    /\ wpc = "install"
    /\ widx = 1
    /\ dirLeft = 0
    /\ cycle = 1
    /\ okCycles = {1}
    /\ bcastLog = <<>>
    /\ spc = [s \in Sessions |-> "none"]
    /\ rxNext = [s \in Sessions |-> 0]
    /\ connected = [s \in Sessions |-> FALSE]
    /\ frames = [s \in Sessions |-> <<>>]
    /\ subAt = [s \in Sessions |-> 0]
    /\ gotIdx = [s \in Sessions |-> 0]
    /\ heard = {}

InitLocks ==
    /\ RefreshLoaded
    /\ IdleHandlers(LockHandlers)

LockHandlerNext ==
    \E h \in LockHandlers :
        \/ \E kind \in {"homepage", "post_read"} : HandlerStart(h, kind)
        \/ render_post_read(h)
        \/ render_post_panic(h)
        \/ read_lock(h)
        \/ HandlerFinish(h)
        \/ HandlerReset(h)

NextLocks ==
    \/ reload_content_install
    \/ WatcherSend
    \/ LockHandlerNext

\* The tokio runtime polls every task that can make progress: each handler
\* task and the watcher task take their next step when it stays possible.
FairLocks ==
    /\ \A h \in LockHandlers :
          WF_vars(render_post_read(h) \/ render_post_panic(h) \/ read_lock(h)
                  \/ HandlerFinish(h))
    /\ WF_vars(reload_content_install)

SpecLocks == InitLocks /\ [][NextLocks]_vars /\ FairLocks

\* ===================================================== page rendering ====
\* Text is a sequence of tokens; a placeholder is one token, so str::replace
\* of a placeholder is the replacement of every token equal to it.  The
\* inserted text is not scanned again by the same replace (as in Rust), but
\* it is scanned by every later replace of the chain.

SlotBanner  == "{{ banner }}"
SlotContent == "{{ content }}"
SlotPosts   == "{{ posts }}"
SlotSlug    == "{{slug}}"
BodyClose   == "</body>"
HOT_RELOAD_SCRIPT == "<script>reload</script>"

RECURSIVE replace(_, _, _)
replace(s, pat, rep) ==
    IF s = <<>> THEN <<>>
    ELSE (IF Head(s) = pat THEN rep ELSE <<Head(s)>>)
         \o replace(Tail(s), pat, rep)

\* for post in posts { list_items.push_str(format!("<li><a href=..>..")) }
RECURSIVE list_items(_)
list_items(posts) ==
    IF posts = <<>> THEN <<>>
    ELSE <<"<li><a href=/posts/", Head(posts).slug, ">", Head(posts).title,
           "</a></li>">> \o list_items(Tail(posts))

render_with_layout(layout, banner, content, posts, dev) ==
    LET page == replace(replace(replace(layout, SlotBanner, banner),
                                SlotContent, content),
                        SlotPosts, list_items(posts))
    IN  IF dev THEN replace(page, BodyClose, <<HOT_RELOAD_SCRIPT, BodyClose>>)
        ELSE page

\* render_post, file unreadable: the not-found fragment with the slug put in.
not_found_body(not_found_html, slug) == replace(not_found_html, SlotSlug, slug)

Html(page) == [status |-> 200, body |-> page]

\* The requests and stores the rendering is examined on.
MaxSlugTokens == 2
SlugTokens == {"ghost", "<b>", SlotPosts, SlotContent}
Slugs == UNION {[1..n -> SlugTokens] : n \in 1..MaxSlugTokens}
Layouts ==
    { <<"<body>", SlotBanner, SlotContent, "<ul>", SlotPosts, "</ul>", BodyClose>>,
      <<"<body>", SlotContent, BodyClose>>,
      <<SlotPosts, SlotContent, SlotContent>> }
NotFounds ==
    { <<"Missing: ", SlotSlug>>, <<SlotSlug, " / ", SlotSlug>>, <<"gone">> }
PostLists ==
    { <<>>, <<[slug |-> "a", title |-> "A"]>>,
      <<[slug |-> "a", title |-> "A"], [slug |-> "b", title |-> "B"]>> }
StoredStates ==
    [layout_html : Layouts, banner_html : {<<"<nav>">>},
     not_found_html : NotFounds, posts : PostLists]

\* GET /posts/{slug} where content/posts/{slug}.md cannot be read.
render_post_miss ==
    /\ call.fn = "render_post"
    /\ ~call.readable
    /\ ret = NotReturned
    /\ ret' = Html(render_with_layout(
                  call.state.layout_html, call.state.banner_html,
                  not_found_body(call.state.not_found_html, call.slug),
                  call.state.posts, is_development))
    /\ UNCHANGED <<draft, store, lockVars, bridge, cbVars, watcherVars,
                   bcastLog, sessionVars, handlerVars, mainVars,
                   call>>

\* ======================================================= load_content ====
\* load_content as a function of what is on disk.  The three fragments
\* (banner.html, layout.html, not_found.html) are readable or not together;
\* home.html is there or not; home.md is absent, or there with a front matter
\* block that parses ("ok"), with none ("none") or with one gray_matter
\* rejects ("bad"); content/posts can be listed or not and holds up to
\* MaxPostFiles entries with distinct names.

MaxPostFiles == 2
Stems == {"a", "b"}
FrontMatterKinds == {"ok", "none", "bad"}
DirEntries ==
    {e \in [stem : Stems, ext : {"md", "txt"}, readable : BOOLEAN,
            fm : FrontMatterKinds, slug : Stems] :
        /\ e.fm # "ok" => e.slug = e.stem
        /\ (~e.readable \/ e.ext # "md") => e.fm = "none"}
DirListings ==
    {l \in UNION {[1..n -> DirEntries] : n \in 0..MaxPostFiles} :
        \A i \in DOMAIN l : \A j \in DOMAIN l :
            (i # j) => <<l[i].stem, l[i].ext>> # <<l[j].stem, l[j].ext>>}
Disks ==
    [fragments : BOOLEAN, home_html : BOOLEAN,
     home_md : {"absent"} \cup FrontMatterKinds,
     posts_dir : BOOLEAN, entries : DirListings]

None == <<>>
Some(x) == <<x>>

\* matter.parse::<FrontMatter>(text): Err for a block that does not
\* deserialize, Ok with data None where there is no block.
matter_parse(kind, title, slug) ==
    CASE kind = "bad"  -> [ok |-> FALSE, data |-> None]
      [] kind = "none" -> [ok |-> TRUE, data |-> None]
      [] OTHER         -> [ok |-> TRUE,
                           data |-> Some([title |-> title, date |-> "2026-01-01",
                                          slug |-> slug])]

\* A sentinel whose slug is the one of a file with no front matter block.
sentinel_lowercase_slug == [title |-> "Error", date |-> "Error", slug |-> "error"]

\* The FrontMatter of the Err arm.
sentinel == [title |-> "Error", date |-> "Error", slug |-> "Error"]

\* match result { Ok(parsed) => parsed.data, Err(e) => Some(sentinel) }
front_matter_of(result) ==
    IF result.ok THEN result.data ELSE Some(sentinel)

\* posts.push(Post { title: ..unwrap_or("Error"), slug: ..unwrap_or("error") })
post_of(front_matter) ==
    IF front_matter = None THEN [title |-> "Error", slug |-> "error"]
    ELSE [title |-> front_matter[1].title, slug |-> front_matter[1].slug]

\* The title a file's front matter gives, where it has one.
TitleOf(e) == "T-" \o e.stem

\* while let Some(entry) = entries.next_entry().await? { .. }
RECURSIVE load_posts(_, _)
load_posts(entries, posts) ==
    IF entries = <<>> THEN [status |-> "ok", posts |-> posts]
    ELSE LET e == Head(entries) IN
         IF e.ext # "md" THEN load_posts(Tail(entries), posts)
         ELSE IF ~e.readable THEN [status |-> "err", posts |-> <<>>]
         ELSE load_posts(Tail(entries),
                  Append(posts,
                      post_of(front_matter_of(
                          matter_parse(e.fm, TitleOf(e), e.slug)))))

\* The home fragment: main.rs reads content/home.html; content_loader.rs
\* reads content/home.md and unwraps its parse result.
load_home(d, disk) ==
    IF d = "main_rs"
    THEN (IF disk.home_html THEN "ok" ELSE "err")
    ELSE CASE disk.home_md = "absent" -> "err"
           [] disk.home_md = "bad"    -> "panic"
           [] OTHER                   -> "ok"

load_content(d, disk) ==
    IF ~disk.fragments THEN [status |-> "err", posts |-> <<>>]
    ELSE IF load_home(d, disk) # "ok"
         THEN [status |-> load_home(d, disk), posts |-> <<>>]
    ELSE IF ~disk.posts_dir THEN [status |-> "err", posts |-> <<>>]
    ELSE load_posts(disk.entries, <<>>)

load_content_return ==
    /\ call.fn = "load_content"
    /\ ret = NotReturned
    /\ ret' = load_content(draft, call.disk)
    /\ UNCHANGED <<draft, store, lockVars, bridge, cbVars, watcherVars,
                   bcastLog, sessionVars, handlerVars, mainVars, call>>

InitLoad ==
    /\ draft \in Drafts
    /\ is_development \in {TRUE}
    /\ mpc = "load"
    /\ call \in [fn : {"load_content"}, disk : Disks]
    /\ ret = NotReturned
    /\ store = NoStore
    /\ wpc = "off"
    /\ Quiet

NextLoad == load_content_return

SpecLoad == InitLoad /\ [][NextLoad]_vars

\* ------------------------------------------ render_post, file readable ----
\* html::push_html of the markdown body of the post file.
html_out == <<"<p>text</p>">>

\* Some(fm) => format!("<h1>{}</h1><p ..>{}</p>{}", fm.title, fm.date, html_out)
\* None     => format!("<h1>Error: No Front Matter</h1>{}", html_out)
post_body(front_matter) ==
    IF front_matter = None
    THEN <<"<h1>Error: No Front Matter</h1>">> \o html_out
    ELSE <<"<h1>", front_matter[1].title, "</h1><p>", front_matter[1].date,
           "</p>">> \o html_out

\* result.unwrap(): the value of an Ok, a panic for an Err.
unwrap(result) == result.ok

\* GET /posts/{slug} where content/posts/{slug}.md was read: the front matter
\* is matched (sentinel for an Err), then `result.unwrap().content` is taken.
render_post_hit ==
    /\ call.fn = "render_post"
    /\ call.readable
    /\ ret = NotReturned
    /\ LET result == matter_parse(call.fm, "T", call.slug)
           front_matter == front_matter_of(result)
       IN  ret' = IF unwrap(result)
                  THEN Html(render_with_layout(
                           call.state.layout_html, call.state.banner_html,
                           post_body(front_matter), call.state.posts,
                           is_development))
                  ELSE [status |-> "panic"]
    /\ UNCHANGED <<draft, store, lockVars, bridge, cbVars, watcherVars,
                   bcastLog, sessionVars, handlerVars, mainVars, call>>

InitRender ==
    /\ draft = "main_rs"
    /\ is_development \in BOOLEAN
    /\ mpc = "serving"
    /\ call \in {c \in [fn : {"render_post"}, slug : Slugs,
                       readable : BOOLEAN, fm : FrontMatterKinds,
                       state : StoredStates] :
                    ~c.readable => c.fm = "none"}
    /\ ret = NotReturned
    /\ store = [f \in Fields |-> 0]
    /\ wpc = "off"
    /\ Quiet

NextRender ==
    \/ render_post_miss
    \/ render_post_hit

SpecRender == InitRender /\ [][NextRender]_vars

\* =========================================== normalize_latex_delimiters ====
\* A string is the sequence of its characters (all of one byte here, so the
\* byte index of the code is the position in the sequence, from 1).

Backslash == "\\"
Newline == "\n"
Dollar == "$"
NoDelimiter == <<>>
NotFound == 0

\* delimiter_at(input, index): <<open, close, display_mode>> of the opener
\* the tail starts with, if any.
delimiter_at(input, index) ==
    IF index + 1 <= Len(input) /\ input[index] = Backslash
                               /\ input[index + 1] = "("
    THEN <<"(", ")", FALSE>>
    ELSE IF index + 1 <= Len(input) /\ input[index] = Backslash
                                    /\ input[index + 1] = "["
    THEN <<"[", "]", TRUE>>
    ELSE NoDelimiter

\* The position of the last backslash-close at or after `from`.
rfind(input, from, close) ==
    LET at == {k \in from..(Len(input) - 1) :
                  input[k] = Backslash /\ input[k + 1] = close}
    IN  IF at = {} THEN NotFound
        ELSE CHOOSE k \in at : \A j \in at : j <= k

\* input[content_start..].find(close): the position of the first
\* backslash-close at or after `from`, scanning forward.
RECURSIVE find(_, _, _)
find(input, from, close) ==
    IF from + 1 > Len(input) THEN NotFound
    ELSE IF input[from] = Backslash /\ input[from + 1] = close THEN from
    ELSE find(input, from + 1, close)

contains_newline(content) == \E k \in DOMAIN content : content[k] = Newline

\* The while loop of normalize_latex_delimiters, at index i with `out` built
\* so far.
RECURSIVE normalize_loop(_, _, _)
normalize_loop(input, i, out) ==
    IF i > Len(input) THEN out
    ELSE
      LET d == delimiter_at(input, i)
          content_start == i + 2
          content_end == IF d = NoDelimiter THEN NotFound
                         ELSE find(input, content_start, d[2])
      IN  IF d # NoDelimiter /\ content_end # NotFound
          THEN LET content == SubSeq(input, content_start, content_end - 1)
                   mark == IF d[3] \/ contains_newline(content)
                           THEN <<Dollar, Dollar>> ELSE <<Dollar>>
               IN  normalize_loop(input, content_end + 2,
                                  out \o mark \o content \o mark)
          ELSE normalize_loop(input, i + 1, Append(out, input[i]))

normalize_latex_delimiters(input) == normalize_loop(input, 1, <<>>)

\* The inputs: up to MaxInputTokens pieces, each a delimiter, a newline, a
\* letter or a lone backslash.
MaxInputTokens == 4
InputTokens ==
    { <<Backslash, "(">>, <<Backslash, ")">>, <<Backslash, "[">>,
      <<Backslash, "]">>, <<Newline>>, <<"a">>, <<Backslash>> }
RECURSIVE Concat(_)
Concat(ts) == IF ts = <<>> THEN <<>> ELSE Head(ts) \o Concat(Tail(ts))
Inputs ==
    {Concat(ts) : ts \in UNION {[1..n -> InputTokens] : n \in 0..MaxInputTokens}}

\* render_markdown_to_html's call of normalize_latex_delimiters on a text.
normalize_call ==
    /\ call.fn = "normalize_latex_delimiters"
    /\ ret = NotReturned
    /\ ret' = [status |-> "ok", pass |-> 1,
               out |-> normalize_latex_delimiters(call.input),
               prev |-> call.input]
    /\ UNCHANGED <<draft, store, lockVars, bridge, cbVars, watcherVars,
                   bcastLog, sessionVars, handlerVars, mainVars, call>>

\* The function applied once more, to its own output.
normalize_again ==
    /\ call.fn = "normalize_latex_delimiters"
    /\ ret # NotReturned
    /\ ret.pass = 1
    /\ ret' = [status |-> "ok", pass |-> 2,
               out |-> normalize_latex_delimiters(ret.out),
               prev |-> ret.out]
    /\ UNCHANGED <<draft, store, lockVars, bridge, cbVars, watcherVars,
                   bcastLog, sessionVars, handlerVars, mainVars, call>>

InitMarkdown ==
    /\ draft = "modules"
    /\ is_development = TRUE
    /\ mpc = "serving"
    /\ call \in [fn : {"normalize_latex_delimiters"}, input : Inputs]
    /\ ret = NotReturned
    /\ store = [f \in Fields |-> 0]
    /\ wpc = "off"
    /\ Quiet

NextMarkdown ==
    \/ normalize_call
    \/ normalize_again

SpecMarkdown == InitMarkdown /\ [][NextMarkdown]_vars

\* ============================================================ claims ====

\* C1: a request handler composes its page from fields of one load cycle:
\* all the <<field, cycle>> pairs a handler has read carry the same cycle.
C1_FieldsFromOneCycle ==
    \A h \in Handlers : \A p \in seen[h] : \A q \in seen[h] : p[2] = q[2]

\* C2: a refresh whose load fails leaves every field of the store as it was,
\* and no field is assigned before the whole load has succeeded: every field
\* holds the value of the initial load or of a batch whose load_content
\* returned Ok, so a failed batch never leaves its mark on any field.
C2_FailedLoadLeavesStore ==
    \A f \in Fields : store[f] = 0 \/ store[f] \in okCycles

\* C2 witness: a refresh has failed after an earlier one was installed.
C2_Witness ==
    /\ wpc = "send"
    /\ cycle \notin okCycles
    /\ \A f \in Fields : store[f] >= 1 /\ store[f] < cycle

\* The batches in flight between the callback's blocking_send and the
\* broadcast: queued in the bridge, held by the blocked callback, or being
\* handled by the watcher loop.
InFlight ==
    bridge + (IF cbpc = "blocked" THEN 1 ELSE 0)
           + (IF wpc \in {"recv", "panicked"} THEN 0 ELSE 1)

\* C3: for every debounced batch with an accepted event exactly one reload
\* signal is broadcast, none lost and none duplicated: the accepted batches
\* are the signals broadcast plus the batches still in flight.
C3_OneSignalPerAcceptedBatch ==
    accepted = Len(bcastLog) + InFlight

\* C4: the install is before the broadcast: a homepage request started after
\* a session received the signal of a batch whose load succeeded reads, for
\* every field, the value of that load or of a later one.
C4_InstallBeforeBroadcast ==
    \A h \in Handlers : \A p \in seen[h] : p[2] >= floor[h]

\* C4 witness: a homepage request started after such a receipt has finished.
C4_Witness ==
    \E h \in Handlers :
        /\ hkind[h] = "done"
        /\ floor[h] >= 1
        /\ \A f \in {"banner", "layout", "home", "posts"} :
              \E p \in seen[h] : p[1] = f

\* C5: a session that subscribed before a signal was sent and whose client
\* stays connected sends "reload", also when more signals are broadcast
\* before it gets to receive: once such a session has ended, its client has
\* been sent the frame.
C5_SubscribedSessionSendsReload ==
    \A s \in Sessions :
        (spc[s] = "closed" /\ connected[s] /\ Tail_pos > subAt[s])
            => frames[s] = <<"reload">>

\* C6: a session sends at most one frame in its life, the frame is "reload",
\* it is sent only after a signal was broadcast and received, and the session
\* is closed once it is sent.
C6_AtMostOneReloadFrame ==
    \A s \in Sessions :
        /\ Len(frames[s]) <= 1
        /\ \A i \in 1..Len(frames[s]) : frames[s][i] = "reload"
        /\ frames[s] # <<>> =>
              /\ spc[s] = "closed"
              /\ gotIdx[s] \in 1..Tail_pos

\* C6 witness: a session has sent its frame and closed, and two signals have
\* been broadcast.
C6_Witness ==
    \E s \in Sessions :
        /\ frames[s] = <<"reload">>
        /\ spc[s] = "closed"
        /\ Tail_pos >= 2

\* An event one of whose paths has a file name starting with ".#" or ending
\* with "~".
HasTempPath(e) ==
    \E i \in 1..Len(e.paths) :
        LET n == e.paths[i] IN
        \/ (Len(n) >= 2 /\ n[1] = "." /\ n[2] = "#")
        \/ (Len(n) >= 1 /\ n[Len(n)] = "~")

\* C7: a batch in which every event has a temporary-file path triggers no
\* refresh and no broadcast: the callback returns without sending on the
\* bridge.
C7_TempFileBatchIgnored ==
    [][(/\ cbpc = "filter"
        /\ cbBatch.ok
        /\ \A i \in 1..Len(cbBatch.events) : HasTempPath(cbBatch.events[i]))
       => (accepted' = accepted /\ cbpc' # "blocked")]_vars

\* C8: only create, modify and remove events are accepted: a batch made only
\* of metadata-only or access events triggers no refresh and no broadcast.
C8_MetadataBatchIgnored ==
    [][(/\ cbpc = "filter"
        /\ cbBatch.ok
        /\ \A i \in 1..Len(cbBatch.events) :
              cbBatch.events[i].kind \in {"modify_metadata", "access"})
       => (accepted' = accepted /\ cbpc' # "blocked")]_vars

\* C9: the watcher broadcasts one signal per batch it took, whether the
\* refresh succeeded or failed with an I/O error, and goes on to the next
\* batch: back at the head of its loop, the signals broadcast are those of
\* the batches 1..cycle, one each, in order.
C9_BroadcastAfterFailedRefresh ==
    wpc = "recv" => bcastLog = [i \in 1..cycle |-> i]

\* C9 witness: a refresh failed, its signal was broadcast, and a later batch
\* was handled after it.
C9_Witness ==
    /\ wpc = "recv"
    /\ \E i \in 1..Len(bcastLog) :
          /\ bcastLog[i] \notin okCycles
          /\ i < Len(bcastLog)

\* C10: a session does not receive a signal broadcast before its subscribe
\* call: the signal its recv returned, and for which it sends "reload", was
\* sent after the subscribe.
C10_NoSignalFromBeforeSubscribe ==
    \A s \in Sessions :
        /\ gotIdx[s] # 0 => gotIdx[s] > subAt[s]
        /\ frames[s] # <<>> => gotIdx[s] # 0

\* C10 witness: a session that subscribed after a signal had been broadcast
\* has sent "reload" for a later one.
C10_Witness ==
    \E s \in Sessions :
        /\ subAt[s] >= 1
        /\ frames[s] = <<"reload">>

\* C11: outside development mode the watcher is never started: the store
\* keeps the initial snapshot, no batch is taken and no signal broadcast; and
\* in either mode the store exists, and requests are served, only after the
\* initial load succeeded in full (a failed one aborts the process).
C11_ProductionStoreIsFrozen ==
    /\ ~is_development =>
          /\ wpc = "off"
          /\ cycle = 0
          /\ accepted = 0
          /\ bcastLog = <<>>
          /\ mpc = "serving" => store = [f \in Fields |-> 0]
    /\ mpc # "serving" =>
          /\ store = NoStore
          /\ \A h \in Handlers : hkind[h] = "idle"

\* C11 witness: production mode, the server has answered a request.
C11_Witness ==
    /\ ~is_development
    /\ mpc = "serving"
    /\ \E h \in Handlers : hkind[h] = "done"

\* The page the layout gives when each slot is filled with its own text and
\* nothing that was filled in is expanded again.
RECURSIVE fill_slots(_, _, _, _, _)
fill_slots(layout, banner, content, items, dev) ==
    IF layout = <<>> THEN <<>>
    ELSE LET t == Head(layout)
             out == CASE t = SlotBanner  -> banner
                      [] t = SlotContent -> content
                      [] t = SlotPosts   -> items
                      [] t = BodyClose /\ dev -> <<HOT_RELOAD_SCRIPT, BodyClose>>
                      [] OTHER -> <<t>>
         IN  out \o fill_slots(Tail(layout), banner, content, items, dev)

\* C12: GET /posts/{slug} for an unreadable file answers 200 with the stored
\* layout whose content slot holds the stored not_found fragment with every
\* "{{slug}}" replaced by the requested slug as it was sent, and the store
\* is left as it was.
C12_NotFoundPageShowsSlug ==
    (call.fn = "render_post" /\ ~call.readable /\ ret # NotReturned) =>
        /\ ret.status = 200
        /\ ret.body = fill_slots(call.state.layout_html, call.state.banner_html,
                          not_found_body(call.state.not_found_html, call.slug),
                          list_items(call.state.posts), is_development)
        /\ store = [f \in Fields |-> 0]

\* The .md entries of a listing, in listing order: the files posts are built
\* from.
RECURSIVE MdEntries(_)
MdEntries(entries) ==
    IF entries = <<>> THEN <<>>
    ELSE (IF Head(entries).ext = "md" THEN <<Head(entries)>> ELSE <<>>)
         \o MdEntries(Tail(entries))

Loaded == call.fn = "load_content" /\ ret # NotReturned /\ ret.status = "ok"

\* C13 as stated: a post file whose front matter fails to parse is still in
\* the index, with slug "error" and title "Error".
C13_BadPostIndexedAsLowercaseError ==
    Loaded =>
        /\ Len(ret.posts) = Len(MdEntries(call.disk.entries))
        /\ \A i \in DOMAIN ret.posts :
              MdEntries(call.disk.entries)[i].fm = "bad" =>
                  ret.posts[i] = [title |-> "Error", slug |-> "error"]

\* C13 amended: a post file whose front matter fails to parse is still in
\* the index of a load that returns Ok, at the file's place, with slug
\* "Error" and title "Error" (the sentinel front matter); the slug "error"
\* is that of a file with no front matter block.
C13_BadPostIndexedAsSentinel ==
    Loaded =>
        /\ Len(ret.posts) = Len(MdEntries(call.disk.entries))
        /\ \A i \in DOMAIN ret.posts :
              LET e == MdEntries(call.disk.entries)[i] IN
              /\ e.fm = "bad"  => ret.posts[i] = [title |-> "Error", slug |-> "Error"]
              /\ e.fm = "none" => ret.posts[i] = [title |-> "Error", slug |-> "error"]

C13_Witness ==
    /\ Loaded
    /\ \E i \in DOMAIN ret.posts :
          /\ MdEntries(call.disk.entries)[i].fm = "bad"
          /\ ret.posts[i].slug = "Error"

\* Every read of the load finds its file: the fragments, the home file of
\* the draft, the posts directory and each .md file in it.
NoIoError(d, disk) ==
    /\ disk.fragments
    /\ IF d = "main_rs" THEN disk.home_html ELSE disk.home_md # "absent"
    /\ disk.posts_dir
    /\ \A i \in DOMAIN disk.entries :
          disk.entries[i].ext = "md" => disk.entries[i].readable

\* C14: a front-matter parse failure in home.md or in a post file never
\* makes load_content fail or crash: a load none of whose reads met an I/O
\* error returns a snapshot, whatever the front matter of the files is.
C14_ParseFailureNeverStopsLoad ==
    (call.fn = "load_content" /\ ret # NotReturned
        /\ NoIoError(draft, call.disk)) => ret.status = "ok"

\* C17: the slug of every index entry of a load is the file name stem of the
\* .md file the entry was built from.
C17_SlugIsFileStem ==
    Loaded =>
        \A i \in DOMAIN ret.posts :
            /\ i <= Len(MdEntries(call.disk.entries))
            /\ ret.posts[i].slug = MdEntries(call.disk.entries)[i].stem

\* A content directory with exactly one of home.html and home.md (a home.md
\* that parses), every other file of the load being readable.
OnlyOneHomeFile(disk) ==
    /\ disk.fragments
    /\ disk.posts_dir
    /\ \A i \in DOMAIN disk.entries :
          disk.entries[i].ext = "md" => disk.entries[i].readable
    /\ \/ disk.home_html /\ disk.home_md = "absent"
       \/ ~disk.home_html /\ disk.home_md \in {"ok", "none"}

\* C18: load_content returns a snapshot both for a content directory with
\* only home.html and for one with only home.md.
C18_EitherHomeFileLoads ==
    (call.fn = "load_content" /\ ret # NotReturned
        /\ OnlyOneHomeFile(call.disk)) => ret.status = "ok"

Normalized(n) ==
    call.fn = "normalize_latex_delimiters" /\ ret # NotReturned /\ ret.pass = n

\* C15: normalize_latex_delimiters is idempotent: applied to its own output
\* it returns that output unchanged, for every input over the delimiters,
\* newline and ordinary characters.
C15_NormalizeIdempotent ==
    Normalized(2) => ret.out = ret.prev

\* The positions in s where backslash-c stands.
Occurrences(s, c) ==
    {k \in 1..(Len(s) - 1) : s[k] = Backslash /\ s[k + 1] = c}

Least(S) == CHOOSE k \in S : \A j \in S : k <= j

Drop(s, n) == SubSeq(s, n + 1, Len(s))

\* The rewriting C16 describes, left to right: an opener whose close occurs
\* after it becomes dollar-wrapped content up to the earliest close, anything
\* else is one character copied.
RECURSIVE Rewritten(_)
Rewritten(x) ==
    IF x = <<>> THEN <<>>
    ELSE LET rest == Drop(x, 2)
             paren == 1 \in Occurrences(x, "(") /\ Occurrences(rest, ")") # {}
             brack == 1 \in Occurrences(x, "[") /\ Occurrences(rest, "]") # {}
         IN  CASE paren ->
                   LET k == Least(Occurrences(rest, ")"))
                       content == SubSeq(rest, 1, k - 1)
                   IN  IF Newline \in {content[j] : j \in DOMAIN content}
                       THEN <<Dollar, Dollar>> \o content \o <<Dollar, Dollar>>
                            \o Rewritten(Drop(rest, k + 1))
                       ELSE <<Dollar>> \o content \o <<Dollar>>
                            \o Rewritten(Drop(rest, k + 1))
               [] brack ->
                   LET k == Least(Occurrences(rest, "]"))
                   IN  <<Dollar, Dollar>> \o SubSeq(rest, 1, k - 1)
                       \o <<Dollar, Dollar>> \o Rewritten(Drop(rest, k + 1))
               [] OTHER -> <<Head(x)>> \o Rewritten(Tail(x))

\* C16: normalize_latex_delimiters rewrites each "\(..\)" closed by the
\* earliest "\)" to "$..$" (content without newline) or "$$..$$" (content
\* with one), each "\[..\]" closed by the earliest "\]" to "$$..$$", copies
\* every other character, and copies an opener with no close after it.
C16_NormalizeRewritesPairs ==
    Normalized(1) => ret.out = Rewritten(call.input)

\* C16 witness: one input with a rewritten pair and an opener left literal.
C16_Witness ==
    /\ Normalized(1)
    /\ Occurrences(call.input, "(") # {}
    /\ Occurrences(ret.out, "[") # {}
    /\ \E k \in DOMAIN ret.out : ret.out[k] = Dollar
    /\ Occurrences(ret.out, "(") = {}

\* The stages of the watcher task in which the refresh of batch `cycle` is
\* under way: taken from the bridge, not yet broadcast.
Refreshing ==
    wpc \in {"reload", "load", "next_entry", "read_post", "install", "send"}

\* C19: the watcher handles the accepted batches one after the other: while
\* the refresh of a batch is under way the signals of all earlier batches
\* have been broadcast, in batch order, and none of a later one; the store
\* is written by that refresh alone, in its install stage, so there is at
\* most one writer waiting for or holding a write lock at any time.
C19_RefreshesAreSerial ==
    /\ \A i \in DOMAIN bcastLog : bcastLog[i] = i
    /\ Refreshing => Len(bcastLog) = cycle - 1
    /\ ~Refreshing => Len(bcastLog) \in {cycle - 1, cycle}
    /\ \A f \in Fields :
          /\ store[f] <= cycle
          /\ store[f] > Len(bcastLog) => (store[f] = cycle /\ wpc \in {"install", "send"})
          /\ InQueue(f, Watcher) =>
                /\ wpc = "install"
                /\ \A g \in Fields \ {f} : ~InQueue(g, Watcher)

\* C19 witness: the second refresh is installing after the first one was
\* installed and broadcast.
C19_Witness ==
    /\ cycle = 2
    /\ wpc = "install"
    /\ bcastLog = <<1>>
    /\ \E f \in Fields : store[f] = 2
    /\ \E g \in Fields : store[g] = 1 /\ InQueue(g, Watcher)

\* C20: a session whose client has disconnected while it waits for a signal
\* stops waiting and drops its subscription without needing a later
\* broadcast: in every state where such a session is still waiting, a step
\* of that session is possible.
C20_DisconnectEndsWait ==
    \A s \in Sessions :
        (spc[s] = "recv" /\ ~connected[s]) =>
            ENABLED (handle_socket_recv_ok(s) \/ handle_socket_recv_lagged(s))

\* C21: GET /posts/{slug} for a readable post file whose front matter fails
\* to parse answers 200 with a page whose content is the sentinel title
\* "Error" and date "Error" followed by the rendered body; the handler does
\* not crash.
C21_BadFrontMatterPageRendered ==
    (call.fn = "render_post" /\ call.readable /\ call.fm = "bad"
        /\ ret # NotReturned) =>
        ret = Html(fill_slots(call.state.layout_html, call.state.banner_html,
                       <<"<h1>", "Error", "</h1><p>", "Error", "</p>">>
                           \o html_out,
                       list_items(call.state.posts), is_development))

Busy(h) == hkind[h] \in {"homepage", "post_read", "post_miss", "post_hit"}

\* C22: no deadlock between the request handlers and the refresher: every
\* handler that has started finishes, and every refresh that has begun to
\* install its five fields installs them all, under fair scheduling.
C22_NoDeadlock ==
    /\ \A h \in LockHandlers : Busy(h) ~> ~Busy(h)
    /\ (wpc = "install") ~> (wpc # "install")

\* C22 witness: the refresher waits for the write lock of a field that one
\* handler holds for reading, while another handler, holding the read lock of
\* another field, waits behind the refresher for that same field.
C22_Witness ==
    \E f \in Fields : \E g \in Fields \ {f} :
        \E h1 \in LockHandlers : \E h2 \in LockHandlers \ {h1} :
            /\ wpc = "install"
            /\ InQueue(f, Watcher)
            /\ h2 \in readers[f]
            /\ InQueue(f, h1)
            /\ h1 \in readers[g]

====
